---- MODULE Spec2Model ----
(***************************************************************************)
(* Model of setup.py, the distutils packaging descriptor of zoneinfo.      *)
(*                                                                         *)
(* One execution of the module body is: the import statement of line 1,    *)
(* then the setup(...) call of lines 3-13.  setup() is distutils.core's:   *)
(* it builds one Distribution from the keywords, parses sys.argv[1:] and   *)
(* runs the commands named there against the working directory.  The       *)
(* working directory is the source tree as supplied: it holds setup.py and *)
(* nothing else.  An execution may be followed by another one (the script  *)
(* is run again, or the module is imported again) in the same directory.   *)
(***************************************************************************)
EXTENDS Naturals, Sequences, FiniteSets

VARIABLES
    pc,          \* position of the execution: start, imported, parse, run, done
    argv,        \* sys.argv[1:] of the process
    environ,     \* names of the environment variables that are set
    modName,     \* __name__ of the module body being executed
    stmts,       \* source lines of the top-level statements executed so far
    setupCalls,  \* number of setup() calls made by this execution
    attrs,       \* the keywords setup() was called with (<<>> before the call)
    queue,       \* commands still to run (Distribution.commands)
    haveRun,     \* commands started in this Distribution (Distribution.have_run)
    output,      \* lines printed on standard output
    exit,        \* exit status: "none", "ok", "error"
    files,       \* paths of the files in the working directory
    dirs,        \* paths of the directories made in the working directory
    installed,   \* names of the files in the installation's script directory
    prev         \* argv, environ and keywords of the previous execution

vars == <<pc, argv, environ, modName, stmts, setupCalls, attrs, queue,
          haveRun, output, exit, files, dirs, installed, prev>>

(***************************************************************************)
(* Bounds and input sets.                                                  *)
(***************************************************************************)
MaxArgs == 2

CommandNames == {"build", "install", "check"}

DisplayOptions == {"--name"}

Args == CommandNames \cup DisplayOptions

ArgLists == UNION {[1..n -> Args] : n \in 0..MaxArgs}

EnvNames == {"DISTUTILS_DEBUG"}

ModuleNames == {"__main__", "setup"}

NoPrev == [ran |-> FALSE]

(***************************************************************************)
(* The descriptor: line 1 and the keywords of lines 3-13.                  *)
(***************************************************************************)
ImportLine == 1

SetupLine == 3

\* description='Query DNS zone information' (line 6), character by character.
Description ==
    <<"Q","u","e","r","y"," ","D","N","S"," ","z","o","n","e"," ",
      "i","n","f","o","r","m","a","t","i","o","n">>

KeywordsFromArgv ==
    [name             |-> "zoneinfo",
     version          |-> IF argv # <<>> THEN argv[1] ELSE "0.1",
     scripts          |-> <<"zoneinfo">>,
     description      |-> Description,
     author           |-> "Shumon Huque",
     author_email     |-> "shuque@upenn.edu",
     url              |-> "http://www.huque.com/software/zoneinfo/",
     long_description |->
         "zoneinfo is a python program to obtain some information about a DNS zone."]

KeywordsFromEnviron ==
    [name             |-> "zoneinfo",
     version          |-> IF environ # {} THEN "0.1.dev" ELSE "0.1",
     scripts          |-> <<"zoneinfo">>,
     description      |-> Description,
     author           |-> "Shumon Huque",
     author_email     |-> "shuque@upenn.edu",
     url              |-> "http://www.huque.com/software/zoneinfo/",
     long_description |->
         "zoneinfo is a python program to obtain some information about a DNS zone."]

KeywordsRenamed ==
    [name             |-> "zoneinfo.py",
     version          |-> "0.1.0",
     scripts          |-> <<"zoneinfo">>,
     description      |-> Description,
     author           |-> "Shumon Huque",
     author_email     |-> "shuque@upenn.edu",
     url              |-> "http://www.huque.com/software/zoneinfo/",
     long_description |->
         "zoneinfo is a python program to obtain some information about a DNS zone."]

KeywordsWithModule ==
    [name             |-> "zoneinfo",
     version          |-> "0.1",
     scripts          |-> <<"zoneinfo">>,
     py_modules       |-> <<"zoneinfo">>,
     description      |-> Description,
     author           |-> "Shumon Huque",
     author_email     |-> "shuque@upenn.edu",
     url              |-> "http://www.huque.com/software/zoneinfo/",
     long_description |->
         "zoneinfo is a python program to obtain some information about a DNS zone."]

KeywordsWithFullStop ==
    [name             |-> "zoneinfo",
     version          |-> "0.1",
     scripts          |-> <<"zoneinfo">>,
     description      |-> Description \o <<".">>,
     author           |-> "Shumon Huque",
     author_email     |-> "shuque@upenn.edu",
     url              |-> "http://www.huque.com/software/zoneinfo/",
     long_description |->
         "zoneinfo is a python program to obtain some information about a DNS zone."]

\* The keywords of the setup() call: every one a literal.
Keywords ==
    [name             |-> "zoneinfo",
     version          |-> "0.1",
     scripts          |-> <<"zoneinfo">>,
     description      |-> Description,
     author           |-> "Shumon Huque",
     author_email     |-> "shuque@upenn.edu",
     url              |-> "http://www.huque.com/software/zoneinfo/",
     long_description |->
         "zoneinfo is a python program to obtain some information about a DNS zone."]

SourceTreeWithScript == {<<"setup.py">>, <<"zoneinfo">>}

\* The files of the source tree: the descriptor alone.
SourceTree == {<<"setup.py">>}

(***************************************************************************)
(* distutils, as reached through the setup() call.                         *)
(***************************************************************************)
BuildDir == <<"build", "scripts-X.Y">>

Range(s) == {s[i] : i \in DOMAIN s}

\* Distribution.has_scripts()
HasScripts(a) == "scripts" \in DOMAIN a /\ Len(a.scripts) > 0

\* The scripts build_scripts cannot read from the working directory.
MissingScripts(a, fs) == {s \in Range(a.scripts) : <<s>> \notin fs}

\* The global options: the options before the first command.
RECURSIVE LeadingOptions(_)
LeadingOptions(args) ==
    IF args # <<>> /\ Head(args) \in DisplayOptions
    THEN <<Head(args)>> \o LeadingOptions(Tail(args))
    ELSE <<>>

RECURSIVE DropLeading(_)
DropLeading(args) ==
    IF args # <<>> /\ Head(args) \in DisplayOptions
    THEN DropLeading(Tail(args))
    ELSE args

\* What build_scripts leaves behind: the build directory is made first, then
\* each script is copied; a script that cannot be read aborts the run.
BuildOk(a, fs) == ~HasScripts(a) \/ MissingScripts(a, fs) = {}

BuiltDirs(a, ds) ==
    IF HasScripts(a) THEN ds \cup {<<"build">>, BuildDir} ELSE ds

BuiltFiles(a, fs) ==
    IF HasScripts(a) /\ MissingScripts(a, fs) = {}
    THEN fs \cup {BuildDir \o <<s>> : s \in Range(a.scripts)}
    ELSE fs

\* The names copy_tree(build_dir, install_dir) copies.
InBuildDir(fs) == {f[3] : f \in {g \in fs : Len(g) = 3 /\ SubSeq(g, 1, 2) = BuildDir}}

(***************************************************************************)
(* Initial states: a fresh process about to execute the module body in the *)
(* source tree as supplied.                                                *)
(***************************************************************************)
Init ==
    /\ pc = "start"
    /\ argv \in ArgLists
    /\ environ \in SUBSET EnvNames
    /\ modName \in ModuleNames
    /\ stmts = <<>>
    /\ setupCalls = 0
    /\ attrs = <<>>
    /\ queue = <<>>
    /\ haveRun = {}
    /\ output = <<>>
    /\ exit = "none"
    /\ files = SourceTree
    /\ dirs = {}
    /\ installed = {}
    /\ prev = NoPrev

\* line 1: from distutils.core import setup
ImportSetup ==
    /\ pc = "start"
    /\ pc' = "imported"
    /\ stmts' = Append(stmts, ImportLine)
    /\ UNCHANGED <<argv, environ, modName, setupCalls, attrs, queue, haveRun,
                   output, exit, files, dirs, installed, prev>>

CallSetupIfMain ==
    /\ pc = "imported"
    /\ IF modName = "__main__"
       THEN /\ pc' = "parse"
            /\ stmts' = Append(stmts, SetupLine)
            /\ setupCalls' = setupCalls + 1
            /\ attrs' = Keywords
            /\ UNCHANGED exit
       ELSE /\ pc' = "done"
            /\ exit' = "ok"
            /\ UNCHANGED <<stmts, setupCalls, attrs>>
    /\ UNCHANGED <<argv, environ, modName, queue, haveRun, output,
                   files, dirs, installed, prev>>

\* lines 3-13: setup(name=..., ...), unconditionally at module top level.
CallSetup ==
    /\ pc = "imported"
    /\ pc' = "parse"
    /\ stmts' = Append(stmts, SetupLine)
    /\ setupCalls' = setupCalls + 1
    /\ attrs' = Keywords
    /\ UNCHANGED <<argv, environ, modName, queue, haveRun, output, exit,
                   files, dirs, installed, prev>>

\* setup(): Distribution.parse_command_line() on sys.argv[1:].  Display
\* options before the first command are answered and no command is run; an
\* option after a command, or no command at all, is a usage error.
ParseCommandLine ==
    /\ pc = "parse"
    /\ LET opts == LeadingOptions(argv)
           rest == DropLeading(argv)
       IN  IF opts # <<>>
           THEN /\ output' = output \o [i \in 1..Len(opts) |-> attrs.name]
                /\ pc' = "done"
                /\ exit' = "ok"
                /\ queue' = <<>>
           ELSE IF rest = <<>> \/ Range(rest) \cap DisplayOptions # {}
           THEN /\ pc' = "done"
                /\ exit' = "error"
                /\ UNCHANGED <<output, queue>>
           ELSE /\ pc' = "run"
                /\ queue' = rest
                /\ UNCHANGED <<output, exit>>
    /\ UNCHANGED <<argv, environ, modName, stmts, setupCalls, attrs, haveRun,
                   files, dirs, installed, prev>>

\* run_command('check'): the metadata has name, version and url; nothing to do.
RunCheck ==
    /\ pc = "run"
    /\ queue # <<>>
    /\ Head(queue) = "check"
    /\ haveRun' = haveRun \cup {"check"}
    /\ queue' = Tail(queue)
    /\ UNCHANGED <<pc, argv, environ, modName, stmts, setupCalls, attrs,
                   output, exit, files, dirs, installed, prev>>

\* run_command('build'): its one sub-command here is build_scripts.
RunBuild ==
    /\ pc = "run"
    /\ queue # <<>>
    /\ Head(queue) = "build"
    /\ IF "build" \in haveRun
       THEN /\ queue' = Tail(queue)
            /\ UNCHANGED <<pc, exit, haveRun, files, dirs>>
       ELSE /\ haveRun' = haveRun \cup
                   {"build"} \cup (IF HasScripts(attrs) THEN {"build_scripts"} ELSE {})
            /\ dirs' = BuiltDirs(attrs, dirs)
            /\ files' = BuiltFiles(attrs, files)
            /\ IF BuildOk(attrs, files)
               THEN /\ queue' = Tail(queue)
                    /\ UNCHANGED <<pc, exit>>
               ELSE /\ pc' = "done"
                    /\ exit' = "error"
                    /\ UNCHANGED queue
    /\ UNCHANGED <<argv, environ, modName, stmts, setupCalls, attrs, output,
                   installed, prev>>

\* run_command('install'): build first, then install_scripts copies the
\* build directory's files to the installation's script directory.
RunInstall ==
    /\ pc = "run"
    /\ queue # <<>>
    /\ Head(queue) = "install"
    /\ IF "install" \in haveRun
       THEN /\ queue' = Tail(queue)
            /\ UNCHANGED <<pc, exit, haveRun, files, dirs, installed>>
       ELSE LET built  == "build" \in haveRun
                fs     == IF built THEN files ELSE BuiltFiles(attrs, files)
                ds     == IF built THEN dirs ELSE BuiltDirs(attrs, dirs)
            IN  /\ files' = fs
                /\ dirs' = ds
                /\ IF built \/ BuildOk(attrs, files)
                   THEN /\ haveRun' = haveRun \cup {"install", "build"} \cup
                               (IF HasScripts(attrs)
                                THEN {"build_scripts", "install_scripts"} ELSE {})
                        /\ installed' =
                               IF HasScripts(attrs)
                               THEN installed \cup InBuildDir(fs) ELSE installed
                        /\ queue' = Tail(queue)
                        /\ UNCHANGED <<pc, exit>>
                   ELSE /\ haveRun' = haveRun \cup {"install", "build", "build_scripts"}
                        /\ pc' = "done"
                        /\ exit' = "error"
                        /\ UNCHANGED <<queue, installed>>
    /\ UNCHANGED <<argv, environ, modName, stmts, setupCalls, attrs, output, prev>>

\* run_commands() has run every command: setup() returns, the module ends.
Finish ==
    /\ pc = "run"
    /\ queue = <<>>
    /\ pc' = "done"
    /\ exit' = "ok"
    /\ UNCHANGED <<argv, environ, modName, stmts, setupCalls, attrs, queue,
                   haveRun, output, files, dirs, installed, prev>>

\* The module body is executed again, by a new process or a new import, in
\* the same working directory.
Rerun ==
    /\ pc = "done"
    /\ \E a \in ArgLists, e \in SUBSET EnvNames, m \in ModuleNames :
          /\ argv' = a
          /\ environ' = e
          /\ modName' = m
    /\ prev' = [ran |-> TRUE, argv |-> argv, environ |-> environ,
                calls |-> setupCalls, attrs |-> attrs]
    /\ pc' = "start"
    /\ stmts' = <<>>
    /\ setupCalls' = 0
    /\ attrs' = <<>>
    /\ queue' = <<>>
    /\ haveRun' = {}
    /\ output' = <<>>
    /\ exit' = "none"
    /\ UNCHANGED <<files, dirs, installed>>

Next ==
    \/ ImportSetup
    \/ CallSetup
    \/ ParseCommandLine
    \/ RunCheck
    \/ RunBuild
    \/ RunInstall
    \/ Finish
    \/ Rerun

Spec == Init /\ [][Next]_vars

(***************************************************************************)
(* Properties.                                                             *)
(***************************************************************************)
Called == pc \in {"parse", "run", "done"}

\* C1: every execution, whatever the command line, makes one Distribution,
\* and the keywords it is made from have name 'zoneinfo' and version '0.1'.
C1_NameAndVersion ==
    Called => /\ setupCalls = 1
              /\ attrs.name = "zoneinfo"
              /\ attrs.version = "0.1"

C1_Witness ==
    /\ pc = "done"
    /\ argv = <<"check", "install">>
    /\ attrs.name = "zoneinfo"

\* The keywords of setup() that declare something to build and install.
InstallableKeywords ==
    {"scripts", "py_modules", "packages", "ext_modules", "libraries",
     "headers", "data_files"}

\* C2: the scripts keyword lists exactly one script, 'zoneinfo', and no other
\* keyword declares a module, package, extension, library, header or data file.
C2_OneScript ==
    Called => /\ Len(attrs.scripts) = 1
              /\ Range(attrs.scripts) = {"zoneinfo"}
              /\ DOMAIN attrs \cap InstallableKeywords = {"scripts"}

C2_Witness ==
    /\ pc = "done"
    /\ "build_scripts" \in haveRun
    /\ Len(attrs.scripts) = 1

\* C3: every finished execution that ran the install command succeeded and
\* left every script of the scripts keyword in the script directory.
C3_InstallPlacesScript ==
    (pc = "done" /\ "install" \in haveRun) =>
        /\ exit = "ok"
        /\ Range(attrs.scripts) \subseteq installed

\* The description as the specification quotes it, full stop included.
QuotedDescription ==
    <<"Q","u","e","r","y"," ","D","N","S"," ","z","o","n","e"," ",
      "i","n","f","o","r","m","a","t","i","o","n",".">>

NoLineBreak(s) == \A i \in DOMAIN s : s[i] \notin {"\n", "\r"}

\* C4 as stated: the description keyword is the quoted text, full stop
\* included, on one line.
C4_DescriptionAsQuoted ==
    Called => /\ attrs.description = QuotedDescription
              /\ NoLineBreak(attrs.description)

\* C4 as amended: the description keyword is the quoted text without its
\* final full stop, on one line.
C4_DescriptionNoFullStop ==
    Called => /\ attrs.description =
                     SubSeq(QuotedDescription, 1, Len(QuotedDescription) - 1)
              /\ attrs.description[Len(attrs.description)] # "."
              /\ NoLineBreak(attrs.description)

C4_Witness ==
    /\ pc = "done"
    /\ output # <<>>
    /\ Len(attrs.description) = Len(QuotedDescription) - 1

\* The keywords of setup() through which a descriptor defines its own
\* command-line handling.
CommandLineKeywords == {"script_name", "script_args", "options", "cmdclass"}

\* C5: the keywords are the eight metadata ones, none defines command-line
\* handling, and an execution with other arguments and another environment
\* passes the same keywords as the one before it.
C5_LiteralMetadata ==
    Called =>
        /\ DOMAIN attrs = {"name", "version", "scripts", "description", "author",
                           "author_email", "url", "long_description"}
        /\ DOMAIN attrs \cap CommandLineKeywords = {}
        /\ (prev.ran /\ prev.calls > 0) => attrs = prev.attrs

C5_Witness ==
    /\ Called
    /\ prev.ran
    /\ prev.calls > 0
    /\ prev.argv # argv
    /\ prev.environ # environ

\* C6: the working directory's only source file is setup.py, and no script
\* of the scripts keyword is a file of it.
C6_ScriptNotInSourceTree ==
    /\ {f \in files : Len(f) = 1} = {<<"setup.py">>}
    /\ Called => \A s \in Range(attrs.scripts) : <<s>> \notin files

C6_Witness ==
    /\ pc = "done"
    /\ "build_scripts" \in haveRun
    /\ exit = "error"
    /\ <<"zoneinfo">> \notin files

\* C7: a finished execution has executed the import and one setup() call, in
\* that order, and nothing else; two executions with the same arguments pass
\* the same keywords.
C7_OneCallDeterministic ==
    /\ setupCalls <= 1
    /\ pc = "done" => (stmts = <<ImportLine, SetupLine>> /\ setupCalls = 1)
    /\ (Called /\ prev.ran /\ prev.argv = argv) => attrs = prev.attrs

C7_Witness ==
    /\ pc = "done"
    /\ prev.ran
    /\ prev.argv = argv
    /\ argv = <<"build">>
    /\ prev.environ # environ
    /\ stmts = <<ImportLine, SetupLine>>

\* C8: when the module body is executed by an import, setup() is called all
\* the same, once, and the commands of the command line are processed.
C8_ImportCallsSetup ==
    (modName # "__main__" /\ pc \notin {"start", "imported"}) =>
        /\ setupCalls = 1
        /\ stmts = <<ImportLine, SetupLine>>
        /\ attrs # <<>>

C8_Witness ==
    /\ modName = "setup"
    /\ pc = "done"
    /\ setupCalls = 1
    /\ haveRun # {}

====
